---- MODULE Spec2Model ----
(***************************************************************************)
(* Model of local_ai_dev_studio.py: the path-confined WorkspaceExecutor,   *)
(* the plan extraction of AutoDevAgent._extract_json, the agent loop       *)
(* AutoDevAgent.run_cycle, and the worker thread App._run_agent_thread     *)
(* that drives it, with AutoDevAgent.stop called from the surface thread.  *)
(*                                                                         *)
(* Texts are sequences of one-character strings.  A path is a sequence of  *)
(* components, each component a text.  The file system is POSIX, without   *)
(* symbolic links; shell commands are opaque and leave the tree alone.     *)
(* The history and the outputs are sequences of entries, and the log is    *)
(* kept only as the last message of the worker thread.                     *)
(*                                                                         *)
(* Spec is one run of the worker thread with stop called at any moment,    *)
(* SpecCodec the plan extraction alone, SpecExecutor the executor called   *)
(* directly, and SpecApp the callbacks of App (start_agent, stop_agent,    *)
(* clean_project) interleaved with the worker threads they start.          *)
(***************************************************************************)
EXTENDS Integers, Sequences, FiniteSets, TLC

\* ------------------------------------------------------------ bounds
\* the largest max_iterations a run is configured with
MaxIter == 3
\* the longest raw model text (in segments) the codec is driven with
MaxRawLen == 3
\* the largest target_loc a run is configured with
MaxTarget == 1
\* the most calls the executor alone is driven with
MaxCalls == 3
\* the most runs the surface starts, and the largest max_iterations of these
MaxRuns == 2
MaxAppIter == 2

\* ------------------------------------------------------------ program constants
\* content[:5000] in the READ<...> item
ReadCap == 5000
\* history[-5000:] and last_output[-4000:] in the prompt
HistoryCap == 5000
OutputCap == 4000

\* ------------------------------------------------------------ texts
CR == "CR"
LF == "LF"

StartsWith(s, prefix) ==
    /\ Len(prefix) <= Len(s)
    /\ SubSeq(s, 1, Len(prefix)) = prefix

Take(s, n) == IF Len(s) <= n THEN s ELSE SubSeq(s, 1, n)

\* text-mode read with newline=None: "\r\n" and "\r" both read back as "\n"
RECURSIVE UniversalNewlines(_)
UniversalNewlines(s) ==
    IF s = <<>> THEN <<>>
    ELSE IF Head(s) = CR
         THEN <<LF>> \o UniversalNewlines(IF Len(s) >= 2 /\ s[2] = LF
                                          THEN Tail(Tail(s)) ELSE Tail(s))
         ELSE <<Head(s)>> \o UniversalNewlines(Tail(s))

\* ------------------------------------------------------------ paths
W == <<"w">>
P == <<"p">>
P2 == <<"p", "2">>
D == <<"d">>
F == <<"f", ".", "p", "y">>
DotDot == <<".", ".">>
\* first component of a rel_path that is absolute ("/...")
Anchor == <<"/">>

\* cfg.project_dir: /w/p
root == <<W, P>>

Parent(path) == IF path = <<>> THEN <<>> ELSE SubSeq(path, 1, Len(path) - 1)

Prefixes(path) == {SubSeq(path, 1, k) : k \in 0..Len(path)}

\* self.root / rel_path: an absolute right operand replaces the left one
JoinPath(base, rel) ==
    IF rel # <<>> /\ Head(rel) = Anchor THEN Tail(rel) ELSE base \o rel

\* Path.resolve() without symbolic links: ".." drops the component before it
RECURSIVE Canon(_, _)
Canon(acc, comps) ==
    IF comps = <<>> THEN acc
    ELSE IF Head(comps) = DotDot
         THEN Canon(Parent(acc), Tail(comps))
         ELSE Canon(Append(acc, Head(comps)), Tail(comps))

resolve(path) == Canon(<<>>, path)

\* str(path): "/" before every component, "/" alone for the file system root
RECURSIVE StrComps(_)
StrComps(path) ==
    IF path = <<>> THEN <<>> ELSE <<"/">> \o Head(path) \o StrComps(Tail(path))

str(path) == IF path = <<>> THEN <<"/">> ELSE StrComps(path)

\* the containment the specification words: the root's components are a prefix
IsDescendant(path) == resolve(root) \in Prefixes(path)

\* the test of line 82
InWorkspace(safe) == StartsWith(str(safe), str(resolve(root)))

_resolve(rel_path) ==
    LET safe == resolve(JoinPath(root, rel_path))
    IN  IF ~InWorkspace(safe)
        THEN [exc |-> "ValueError", path |-> safe]
        ELSE [exc |-> "", path |-> safe]

\* ------------------------------------------------------------ file system
\* fs = [files |-> function from path to text, dirs |-> set of paths]
NoFiles == [q \in {} |-> <<>>]

Exists(fs, path) == path \in DOMAIN fs.files \/ path \in fs.dirs

\* Path.mkdir(parents=True, exist_ok=True)
PathMkdir(fs, path) ==
    IF path \in DOMAIN fs.files
    THEN [fs |-> fs, exc |-> "FileExistsError"]
    ELSE IF \E q \in Prefixes(path) : q \in DOMAIN fs.files
    THEN [fs |-> fs, exc |-> "NotADirectoryError"]
    ELSE [fs |-> [fs EXCEPT !.dirs = @ \cup Prefixes(path)], exc |-> ""]

\* open(path, "w" or "a") and write
PathWrite(fs, path, content, append) ==
    IF path \in fs.dirs
    THEN [fs |-> fs, exc |-> "IsADirectoryError"]
    ELSE LET old == IF append /\ path \in DOMAIN fs.files
                    THEN fs.files[path] ELSE <<>>
             new == [q \in DOMAIN fs.files \cup {path} |->
                        IF q = path THEN old \o content ELSE fs.files[q]]
         IN  [fs |-> [fs EXCEPT !.files = new], exc |-> ""]

mkdir(fs, rel_path) ==
    LET r == _resolve(rel_path)
    IN  IF r.exc # "" THEN [fs |-> fs, exc |-> r.exc]
        ELSE PathMkdir(fs, r.path)

WriteOrAppend(fs, rel_path, content, append) ==
    LET r == _resolve(rel_path)
    IN  IF r.exc # "" THEN [fs |-> fs, exc |-> r.exc]
        ELSE LET m == PathMkdir(fs, Parent(r.path))
             IN  IF m.exc # "" THEN m
                 ELSE PathWrite(m.fs, r.path, content, append)

write_file(fs, rel_path, content) == WriteOrAppend(fs, rel_path, content, FALSE)

append_file(fs, rel_path, content) == WriteOrAppend(fs, rel_path, content, TRUE)

read_file(fs, rel_path) ==
    LET r == _resolve(rel_path)
    IN  IF r.exc # "" THEN [exc |-> r.exc, ret |-> <<>>]
        ELSE IF ~Exists(fs, r.path) THEN [exc |-> "", ret |-> <<>>]
        ELSE IF r.path \in fs.dirs THEN [exc |-> "IsADirectoryError", ret |-> <<>>]
        ELSE [exc |-> "", ret |-> UniversalNewlines(fs.files[r.path])]

\* subprocess.run(command, shell=True, ...) then the text of line 123:
\* "$ command", stdout and stderr; result.returncode is only logged
run(command, proc) ==
    [kind |-> "run", cmd |-> command, stdout |-> proc.stdout, stderr |-> proc.stderr]

\* cfg.language, the default of the form (line 264)
language == "python"

\* ext_map.get(language.lower(), ".py"), as a set of suffixes
Extensions(lang) ==
    IF lang = "cpp"
    THEN {<<".", "c", "p", "p">>, <<".", "h", "p", "p">>, <<".", "h">>,
          <<".", "c", "c">>, <<".", "c", "x", "x">>}
    ELSE {<<".", "p", "y">>}

\* p.suffix: the name from its last dot on, unless that dot leads the name
suffix(name) ==
    LET dots == {n \in 2..Len(name) : name[n] = "."}
    IN  IF dots = {} THEN <<>>
        ELSE SubSeq(name, CHOOSE n \in dots : \A m \in dots : m <= n, Len(name))

\* len(text.splitlines()): a line ends at "\r\n", "\r", "\n" or the end
RECURSIVE LineCount(_, _)
LineCount(text, open) ==
    IF text = <<>> THEN (IF open THEN 1 ELSE 0)
    ELSE IF Head(text) = CR /\ Len(text) >= 2 /\ text[2] = LF
    THEN 1 + LineCount(Tail(Tail(text)), FALSE)
    ELSE IF Head(text) \in {CR, LF} THEN 1 + LineCount(Tail(text), FALSE)
    ELSE LineCount(Tail(text), TRUE)

RECURSIVE SumLines(_, _)
SumLines(fs, paths) ==
    IF paths = {} THEN 0
    ELSE LET q == CHOOSE x \in paths : TRUE
         IN  LineCount(fs.files[q], FALSE) + SumLines(fs, paths \ {q})

\* lines 127-142: the files below the root whose suffix matches
count_loc(fs, lang) ==
    SumLines(fs, {q \in DOMAIN fs.files :
                    /\ root \in Prefixes(q)
                    /\ suffix(q[Len(q)]) \in Extensions(lang)})

\* ------------------------------------------------------------ decoded plans
\* A decoded object is a function from its keys to their values.  The value
\* of "actions" and the elements of a list carry the kind of JSON value they
\* are, since the loop treats the kinds differently.
Get(d, key, default) == IF key \in DOMAIN d THEN d[key] ELSE default

Dict(d) == [tag |-> "dict", d |-> d]
Number == [tag |-> "num"]
Character == [tag |-> "str"]
List(items) == [tag |-> "list", items |-> items]
Null == [tag |-> "null", items |-> <<>>]
\* a JSON string: iterating it yields its characters, each a string
String(n) == [tag |-> "str", items |-> [k \in 1..n |-> Character]]

EmptyDict == [q \in {} |-> <<>>]

PlanEmpty == [summary |-> "empty", actions |-> List(<<>>)]
PlanNoSummary == [actions |-> List(<<Dict([type |-> "mkdir", path |-> <<D>>])>>)]
PlanNoActions == [summary |-> "noactions"]
PlanNullActions == [summary |-> "null", actions |-> Null]
PlanStringActions == [summary |-> "string", actions |-> String(2)]
PlanUnknown ==
    [summary |-> "unknown",
     actions |-> List(<<Dict([type |-> "chmod", path |-> <<F>>]),
                        Dict([type |-> "write_file", path |-> <<F>>, content |-> <<"a">>])>>)]
PlanDone ==
    [summary |-> "done",
     actions |-> List(<<Dict([type |-> "done", reason |-> "ok"]),
                        Dict([type |-> "run", cmd |-> "t"])>>)]
PlanEscape ==
    [summary |-> "escape",
     actions |-> List(<<Dict([type |-> "write_file", path |-> <<DotDot, P2, F>>,
                              content |-> <<"a">>]),
                        Dict([type |-> "mkdir", path |-> <<DotDot, D>>]),
                        Dict([type |-> "read_file", path |-> <<DotDot, P2, F>>])>>)]
PlanMissing ==
    [summary |-> "missing",
     actions |-> List(<<Dict([type |-> "write_file", content |-> <<"a">>]),
                        Dict([path |-> <<F>>]),
                        Dict([type |-> "read_file", path |-> <<F>>])>>)]
PlanNotDict ==
    [summary |-> "notdict",
     actions |-> List(<<Number,
                        Dict([type |-> "write_file", path |-> <<F>>, content |-> <<"b">>])>>)]
PlanBuild ==
    [summary |-> "build",
     actions |-> List(<<Dict([type |-> "mkdir", path |-> <<D>>]),
                        Dict([type |-> "write_file", path |-> <<D, F>>]),
                        Dict([type |-> "done"])>>)]
PlanAppend ==
    [summary |-> "append",
     actions |-> List(<<Dict([type |-> "append_file", path |-> <<F>>, content |-> <<"a">>]),
                        Dict([type |-> "append_file", path |-> <<F>>, content |-> <<CR>>]),
                        Dict([type |-> "read_file", path |-> <<F>>])>>)]
PlanRun ==
    [summary |-> "run",
     actions |-> List(<<Dict([type |-> "run", cmd |-> "t"]),
                        Dict([type |-> "run"]),
                        Dict([type |-> "write_file", path |-> <<>>, content |-> <<"a">>])>>)]

Plans ==
    {PlanEmpty, PlanNoSummary, PlanNoActions, PlanNullActions, PlanStringActions,
     PlanUnknown, PlanDone, PlanEscape, PlanMissing, PlanNotDict, PlanBuild,
     PlanAppend, PlanRun}

\* ------------------------------------------------------------ raw model text
\* A raw text is a sequence of segments: an opening brace, a closing brace, a
\* word of prose (no brace in it, not JSON), or the JSON text of one object,
\* which opens with a brace, closes with one, and is balanced in between.
LB == [t |-> "lb"]
RB == [t |-> "rb"]
Word == [t |-> "w"]
Obj(p) == [t |-> "obj", plan |-> p]

Opens(seg) == seg.t \in {"lb", "obj"}
Closes(seg) == seg.t \in {"rb", "obj"}

Min(S) == CHOOSE x \in S : \A y \in S : x <= y
Max(S) == CHOOSE x \in S : \A y \in S : x >= y

\* re.search(r"\{.*\}", raw, re.S): from the first opening brace of the text
\* to the last closing brace after it; <<>> when there is no match
search(raw) ==
    LET opens == {k \in 1..Len(raw) : Opens(raw[k])}
        closes == {k \in 1..Len(raw) : Closes(raw[k])}
    IN  IF opens = {} \/ closes = {} \/ Max(closes) < Min(opens)
        THEN <<>>
        ELSE SubSeq(raw, Min(opens), Max(closes))

\* json.loads(text): the text must be one JSON value and nothing else
loads(text) ==
    IF Len(text) = 1 /\ text[1].t = "obj" THEN [exc |-> "", plan |-> text[1].plan]
    ELSE IF text = <<LB, RB>> THEN [exc |-> "", plan |-> EmptyDict]
    ELSE [exc |-> "JSONDecodeError", plan |-> EmptyDict]

_extract_json(raw) ==
    LET match == search(raw)
    IN  IF match = <<>>
        THEN [exc |-> "ValueError", plan |-> EmptyDict]
        ELSE loads(match)

\* ------------------------------------------------------------ action dispatch
\* the except clause of lines 235-238
Caught(fs, a_type, exc) ==
    [fs |-> fs, out |-> <<[kind |-> "error", a_type |-> a_type, exc |-> exc]>>,
     ctl |-> "continue", res |-> "caught"]

Applied(fs, out) == [fs |-> fs, out |-> out, ctl |-> "continue", res |-> "ok"]

\* lines 229-232 with the return left out
DoneActionContinues(fs) == [fs |-> fs, out |-> <<>>, ctl |-> "continue", res |-> "done"]

\* lines 229-232
DoneAction(fs) == [fs |-> fs, out |-> <<>>, ctl |-> "return", res |-> "done"]

\* lines 233-234 raising instead of logging
UnknownActionRaises(fs, a_type) == Caught(fs, a_type, "ValueError")

\* lines 233-234
UnknownAction(fs, a_type) ==
    [fs |-> fs, out |-> <<>>, ctl |-> "continue", res |-> "ignored"]

PathActions == {"mkdir", "write_file", "append_file", "read_file"}
KnownActions == PathActions \cup {"run", "done"}

\* lines 215-238 for an element that is an object; proc is what the shell
\* command of a run action turns out to do; subprocess.run raises when its
\* cwd, the root, is not there
Dispatch(action, fs, proc) ==
    LET a_type == Get(action, "type", "")
        content == Get(action, "content", <<>>)
    IN  IF a_type \in PathActions /\ "path" \notin DOMAIN action
        THEN Caught(fs, a_type, "KeyError")
        ELSE IF a_type = "mkdir"
        THEN LET r == mkdir(fs, action.path)
             IN  IF r.exc # "" THEN Caught(fs, a_type, r.exc) ELSE Applied(r.fs, <<>>)
        ELSE IF a_type = "write_file"
        THEN LET r == write_file(fs, action.path, content)
             IN  IF r.exc # "" THEN Caught(fs, a_type, r.exc) ELSE Applied(r.fs, <<>>)
        ELSE IF a_type = "append_file"
        THEN LET r == append_file(fs, action.path, content)
             IN  IF r.exc # "" THEN Caught(fs, a_type, r.exc) ELSE Applied(r.fs, <<>>)
        ELSE IF a_type = "read_file"
        THEN LET r == read_file(fs, action.path)
             IN  IF r.exc # "" THEN Caught(fs, a_type, r.exc)
                 ELSE Applied(fs, <<[kind |-> "read", path |-> action.path,
                                     content |-> Take(r.ret, ReadCap)]>>)
        ELSE IF a_type = "run"
        THEN IF "cmd" \notin DOMAIN action THEN Caught(fs, a_type, "KeyError")
             ELSE IF root \notin fs.dirs
             THEN Caught(fs, a_type, "FileNotFoundError")
             ELSE Applied(fs, <<run(action.cmd, proc)>>)
        ELSE IF a_type = "done" THEN DoneAction(fs)
        ELSE UnknownAction(fs, a_type)

\* "\n\n".join(iteration_output)
RECURSIVE join(_)
join(items) ==
    IF Len(items) <= 1 THEN items
    ELSE <<Head(items), [kind |-> "sep"]>> \o join(Tail(items))

\* ------------------------------------------------------------ inputs
\* what the provider may answer: each plan alone, a plan wrapped in prose,
\* prose without any object, and braces around prose
Responses ==
    {<<Obj(p)>> : p \in Plans}
        \cup {<<Word, Obj(PlanEmpty), Word>>, <<Word>>, <<LB, Word, RB>>}

\* how LocalLLMClient.generate fails: ollama not found (line 64), the timeout
\* (line 66), a non-zero return code (line 69)
ProviderFailures == {"introuvable", "timeout", "returncode"}

\* what a shell command may turn out to do
Procs ==
    {[returncode |-> 0, stdout |-> "out", stderr |-> ""],
     [returncode |-> 1, stdout |-> "", stderr |-> "err"],
     [returncode |-> 1, stdout |-> "out", stderr |-> ""]}

\* the segments the codec alone is driven with
CodecSegments == {LB, RB, Word, Obj(PlanEmpty), Obj(PlanDone)}

RawTexts == UNION {[1..n -> CodecSegments] : n \in 0..MaxRawLen}

\* ------------------------------------------------------------ state
VARIABLES
    pc,               \* where the worker thread is
    max_iterations,   \* self.config.max_iterations
    target_loc,       \* self.config.target_loc
    stop_requested,   \* self.stop_requested
    i,                \* the loop variable of run_cycle
    loc,              \* the line count of the latest iteration
    history,          \* one entry per "\nIteration {i}: {summary}"
    last_output,
    prompt,           \* the prompt of the latest provider call
    raw,              \* the latest provider answer
    plan,             \* the latest decoded plan
    actions,          \* the elements the action loop iterates over
    k,                \* the position of the action loop in actions
    iteration_output,
    fs,               \* the file tree
    loopState,        \* the way run_cycle was left, "Running" before
    exc,              \* the exception leaving run_cycle, NoExc when none
    lastLog,          \* the last message of _run_agent_thread, <<>> before
    llm_calls,        \* the provider's record of its invocations
    dispatched,       \* the elements the action loop reached, in order
    runs,             \* how many worker threads start_agent has started
    agent,            \* self.agent: 0 for None, else the run that made it
    stop_issued,      \* stop_agent was called since the latest run started
    calls             \* the executor calls made directly, with their results

vars ==
    <<pc, max_iterations, target_loc, stop_requested, i, loc, history,
      last_output, prompt, raw, plan, actions, k, iteration_output, fs,
      loopState, exc, lastLog, llm_calls, dispatched, runs, agent,
      stop_issued, calls>>

cfgVars == <<max_iterations, target_loc>>

appVars == <<runs, agent, stop_issued, calls>>

loopVars == <<loc, history, last_output, prompt, raw, plan, actions, k, iteration_output>>

NoExc == [type |-> "", msg |-> ""]

\* s[-n:]
Last(s, n) == IF Len(s) <= n THEN s ELSE SubSeq(s, Len(s) - n + 1, Len(s))

\* lines 162-179: what of the run's state the prompt carries
_build_prompt(iteration, hist, out) ==
    [iteration |-> iteration, max_iterations |-> max_iterations,
     language |-> language, target_loc |-> target_loc,
     history |-> Last(hist, HistoryCap), last_output |-> Last(out, OutputCap)]

\* run_cycle before its first iteration (lines 182-183), nothing called yet
Fresh ==
    /\ stop_requested = FALSE
    /\ history = <<>>
    /\ last_output = <<>>
    /\ plan = EmptyDict
    /\ actions = <<>>
    /\ k = 1
    /\ iteration_output = <<>>
    /\ loopState = "Running"
    /\ exc = NoExc
    /\ lastLog = <<>>
    /\ dispatched = <<>>

Init ==
    /\ pc = "start"
    /\ max_iterations \in 1..MaxIter
    /\ target_loc \in {0, MaxTarget}
    /\ i = 0
    /\ loc = 0
    /\ prompt = _build_prompt(0, <<>>, <<>>)
    /\ raw = <<>>
    /\ fs = [files |-> NoFiles, dirs |-> {<<>>, <<W>>}]
    /\ llm_calls = <<>>
    /\ runs = 1
    /\ agent = 0
    /\ stop_issued = FALSE
    /\ calls = <<>>
    /\ Fresh

\* ------------------------------------------------------------ surface thread
\* AutoDevAgent.stop, once _run_agent_thread has constructed the agent
stop ==
    /\ pc # "start"
    /\ stop_requested' = TRUE
    /\ UNCHANGED <<pc, cfgVars, appVars, i, loopVars, fs, loopState, exc, lastLog,
                   llm_calls, dispatched>>

\* ------------------------------------------------------------ worker thread
\* _run_agent_thread, lines 321-325
ThreadStart ==
    /\ pc = "start"
    /\ fs' = PathMkdir(fs, root).fs
    /\ stop_requested' = FALSE
    /\ agent' = runs
    /\ pc' = "top"
    /\ UNCHANGED <<cfgVars, runs, stop_issued, calls, i, loopVars, loopState,
                   exc, lastLog, llm_calls, dispatched>>

\* the for statement of line 184 running out of iterations
LoopExhausted ==
    /\ pc = "top"
    /\ i = max_iterations
    /\ pc' = "returned"
    /\ loopState' = "Exhausted"
    /\ UNCHANGED <<cfgVars, appVars, stop_requested, i, loopVars, fs, exc, lastLog,
                   llm_calls, dispatched>>

\* line 185 without the test of the flag
StopNotPolled == FALSE

\* the poll of line 185
StopPolled == stop_requested

\* lines 184-187
StopBreak ==
    /\ pc = "top"
    /\ i < max_iterations
    /\ StopPolled
    /\ i' = i + 1
    /\ pc' = "returned"
    /\ loopState' = "StoppedByUser"
    /\ UNCHANGED <<cfgVars, appVars, stop_requested, loopVars, fs, exc, lastLog,
                   llm_calls, dispatched>>

\* lines 184-185, the flag not set
IterStart ==
    /\ pc = "top"
    /\ i < max_iterations
    /\ ~StopPolled
    /\ i' = i + 1
    /\ pc' = "llm"
    /\ UNCHANGED <<cfgVars, appVars, stop_requested, loopVars, fs, loopState, exc,
                   lastLog, llm_calls, dispatched>>

\* lines 192-193 leaving the loop once the target is reached
AfterTargetTestLeaves(count) ==
    IF count >= target_loc THEN "returned" ELSE "extract"

\* lines 192-193: reaching the target logs a message and nothing else, the
\* iteration goes on to decode what the provider answered
AfterTargetTest(count) == "extract"

\* lines 189-197, the provider answering
GenerateOk ==
    /\ pc = "llm"
    /\ \E r \in Responses :
          /\ raw' = r
          /\ llm_calls' = Append(llm_calls, [iteration |-> i, result |-> "ok", raw |-> r])
    /\ loc' = count_loc(fs, language)
    /\ prompt' = _build_prompt(i, history, last_output)
    /\ pc' = AfterTargetTest(count_loc(fs, language))
    /\ UNCHANGED <<cfgVars, appVars, stop_requested, i, history, last_output, plan,
                   actions, k, iteration_output, fs, loopState, exc, lastLog,
                   dispatched>>

\* line 196 wrapped in a try whose except clause continues the loop
ProviderFailedSkipped(failure) ==
    /\ pc' = "top"
    /\ exc' = NoExc
    /\ loopState' = "Running"
    /\ UNCHANGED <<i, raw>>

\* what run_cycle does with an exception of line 196: nothing, it leaves
ProviderFailed(failure) ==
    /\ pc' = "raised"
    /\ exc' = [type |-> "RuntimeError", msg |-> failure]
    /\ loopState' = "Raised"
    /\ UNCHANGED <<i, raw>>

\* lines 189-196, generate raising RuntimeError
GenerateFail ==
    /\ pc = "llm"
    /\ \E failure \in ProviderFailures :
          /\ llm_calls' = Append(llm_calls,
                                 [iteration |-> i, result |-> failure, raw |-> <<>>])
          /\ ProviderFailed(failure)
    /\ loc' = count_loc(fs, language)
    /\ prompt' = _build_prompt(i, history, last_output)
    /\ UNCHANGED <<cfgVars, appVars, stop_requested, history, last_output, plan,
                   actions, k, iteration_output, fs, lastLog, dispatched>>

\* lines 199-200, _extract_json returning
ExtractOk ==
    /\ pc = "extract"
    /\ _extract_json(raw).exc = ""
    /\ plan' = _extract_json(raw).plan
    /\ pc' = "plan"
    /\ UNCHANGED <<cfgVars, appVars, loc, stop_requested, i, history, last_output, prompt,
                   raw, actions, k, iteration_output, fs, loopState, exc, lastLog,
                   llm_calls, dispatched>>

\* lines 201-204 with the assignment of line 203 left out
DecodeFailedSilently(failure) ==
    /\ last_output' = last_output
    /\ history' = history
    /\ pc' = "top"

\* lines 201-204: what the except clause leaves in last_output and history
DecodeFailed(failure) ==
    /\ last_output' = <<[kind |-> "exc", exc |-> failure]>>
    /\ history' = history
    /\ pc' = "top"

\* lines 199-204, _extract_json raising
ExtractFail ==
    /\ pc = "extract"
    /\ _extract_json(raw).exc # ""
    /\ DecodeFailed(_extract_json(raw).exc)
    /\ UNCHANGED <<cfgVars, appVars, loc, stop_requested, i, prompt, raw, plan, actions, k,
                   iteration_output, fs, loopState, exc, lastLog, llm_calls,
                   dispatched>>

\* len(actions) of line 208 is defined
Sized(value) == value.tag \in {"list", "str", "dict"}

\* lines 206-211
PlanAccepted ==
    /\ pc = "plan"
    /\ LET summary == Get(plan, "summary", "(sans resume)")
           value == Get(plan, "actions", List(<<>>))
       IN  /\ Sized(value)
           /\ history' = Append(history, [iteration |-> i, summary |-> summary])
           /\ actions' = value.items
    /\ k' = 1
    /\ iteration_output' = <<>>
    /\ pc' = "act"
    /\ UNCHANGED <<cfgVars, appVars, loc, stop_requested, i, last_output, prompt, raw, plan,
                   fs, loopState, exc, lastLog, llm_calls, dispatched>>

\* lines 206-208, len(actions) raising TypeError
PlanUnsized ==
    /\ pc = "plan"
    /\ ~Sized(Get(plan, "actions", List(<<>>)))
    /\ pc' = "raised"
    /\ exc' = [type |-> "TypeError", msg |-> "len"]
    /\ loopState' = "Raised"
    /\ UNCHANGED <<cfgVars, appVars, stop_requested, i, loopVars, fs, lastLog,
                   llm_calls, dispatched>>

\* line 212 with no element left, then line 240
ActionsEnd ==
    /\ pc = "act"
    /\ k > Len(actions)
    /\ last_output' = join(iteration_output)
    /\ pc' = "top"
    /\ UNCHANGED <<cfgVars, appVars, loc, stop_requested, i, history, prompt, raw, plan,
                   actions, k, iteration_output, fs, loopState, exc, lastLog,
                   llm_calls, dispatched>>

\* lines 212-214, then line 240
ActionStopBreak ==
    /\ pc = "act"
    /\ k <= Len(actions)
    /\ stop_requested
    /\ last_output' = join(iteration_output)
    /\ pc' = "top"
    /\ UNCHANGED <<cfgVars, appVars, loc, stop_requested, i, history, prompt, raw, plan,
                   actions, k, iteration_output, fs, loopState, exc, lastLog,
                   llm_calls, dispatched>>

\* lines 212-215, action.get raising AttributeError outside the try
ActionNotDict ==
    /\ pc = "act"
    /\ k <= Len(actions)
    /\ ~stop_requested
    /\ actions[k].tag # "dict"
    /\ dispatched' = Append(dispatched, [iteration |-> i, index |-> k, res |-> "raised"])
    /\ pc' = "raised"
    /\ exc' = [type |-> "AttributeError", msg |-> "get"]
    /\ loopState' = "Raised"
    /\ UNCHANGED <<cfgVars, appVars, stop_requested, i, loopVars, fs, lastLog, llm_calls>>

\* lines 212-238 for an element that is an object
DispatchAction ==
    /\ pc = "act"
    /\ k <= Len(actions)
    /\ ~stop_requested
    /\ actions[k].tag = "dict"
    /\ \E proc \in IF Get(actions[k].d, "type", "") = "run" THEN Procs
                   ELSE {[returncode |-> 0, stdout |-> "", stderr |-> ""]} :
          LET r == Dispatch(actions[k].d, fs, proc)
          IN  /\ fs' = r.fs
              /\ iteration_output' = iteration_output \o r.out
              /\ dispatched' =
                    Append(dispatched, [iteration |-> i, index |-> k, res |-> r.res])
              /\ IF r.ctl = "return"
                 THEN /\ pc' = "returned"
                      /\ loopState' = "StoppedByPlan"
                      /\ k' = k
                 ELSE /\ pc' = "act"
                      /\ loopState' = loopState
                      /\ k' = k + 1
    /\ UNCHANGED <<cfgVars, appVars, loc, stop_requested, i, history, last_output, prompt,
                   raw, plan, actions, exc, lastLog, llm_calls>>

\* _run_agent_thread, lines 326-327
CycleReturned ==
    /\ pc = "returned"
    /\ lastLog' = <<"Cycle IA termine.">>
    /\ pc' = "finished"
    /\ UNCHANGED <<cfgVars, appVars, stop_requested, i, loopVars, fs, loopState, exc,
                   llm_calls, dispatched>>

\* _run_agent_thread, lines 328-329
CycleRaised ==
    /\ pc = "raised"
    /\ lastLog' = <<"Erreur fatale", exc.msg>>
    /\ pc' = "finished"
    /\ UNCHANGED <<cfgVars, appVars, stop_requested, i, loopVars, fs, loopState, exc,
                   llm_calls, dispatched>>

Next ==
    \/ stop
    \/ ThreadStart
    \/ LoopExhausted
    \/ StopBreak
    \/ IterStart
    \/ GenerateOk
    \/ GenerateFail
    \/ ExtractOk
    \/ ExtractFail
    \/ PlanAccepted
    \/ PlanUnsized
    \/ ActionsEnd
    \/ ActionStopBreak
    \/ ActionNotDict
    \/ DispatchAction
    \/ CycleReturned
    \/ CycleRaised

Spec == Init /\ [][Next]_vars

\* ------------------------------------------------------------ the codec alone
\* _extract_json applied to every raw text of at most MaxRawLen segments
InitCodec ==
    /\ pc = "extract"
    /\ max_iterations = 1
    /\ target_loc = MaxTarget
    /\ i = 1
    /\ loc = 0
    /\ prompt = _build_prompt(1, <<>>, <<>>)
    /\ raw \in RawTexts
    /\ fs = [files |-> NoFiles, dirs |-> Prefixes(root)]
    /\ llm_calls = <<[iteration |-> 1, result |-> "ok", raw |-> raw]>>
    /\ runs = 1
    /\ agent = 1
    /\ stop_issued = FALSE
    /\ calls = <<>>
    /\ Fresh

NextCodec == ExtractOk \/ ExtractFail

SpecCodec == InitCodec /\ [][NextCodec]_vars

\* ------------------------------------------------------------ the executor alone
\* the rel_path and content arguments the executor is called with
ExecPaths == {<<F>>, <<D>>, <<D, F>>}

ExecTexts == {<<>>, <<"a">>, <<CR>>}

\* one call of the executor and what came of it; existed tells whether
\* anything was at the resolved path when the call was made, and under_file
\* whether a regular file was in the place of one of its parent directories
Call(op, rel_path, content, r, ret) ==
    [op |-> op, rel_path |-> rel_path, content |-> content, exc |-> r.exc,
     ret |-> ret, existed |-> Exists(fs, _resolve(rel_path).path),
     under_file |-> \E q \in Prefixes(Parent(_resolve(rel_path).path)) :
                       q \in DOMAIN fs.files]

CallMkdir ==
    /\ pc = "executor"
    /\ Len(calls) < MaxCalls
    /\ \E rel_path \in ExecPaths :
          LET r == mkdir(fs, rel_path)
          IN  /\ fs' = r.fs
              /\ calls' = Append(calls, Call("mkdir", rel_path, <<>>, r, <<>>))
    /\ UNCHANGED <<pc, cfgVars, runs, agent, stop_issued, stop_requested, i,
                   loopVars, loopState, exc, lastLog, llm_calls, dispatched>>

CallWriteFile ==
    /\ pc = "executor"
    /\ Len(calls) < MaxCalls
    /\ \E rel_path \in ExecPaths, content \in ExecTexts :
          LET r == write_file(fs, rel_path, content)
          IN  /\ fs' = r.fs
              /\ calls' = Append(calls, Call("write_file", rel_path, content, r, <<>>))
    /\ UNCHANGED <<pc, cfgVars, runs, agent, stop_issued, stop_requested, i,
                   loopVars, loopState, exc, lastLog, llm_calls, dispatched>>

CallAppendFile ==
    /\ pc = "executor"
    /\ Len(calls) < MaxCalls
    /\ \E rel_path \in ExecPaths, content \in ExecTexts :
          LET r == append_file(fs, rel_path, content)
          IN  /\ fs' = r.fs
              /\ calls' = Append(calls, Call("append_file", rel_path, content, r, <<>>))
    /\ UNCHANGED <<pc, cfgVars, runs, agent, stop_issued, stop_requested, i,
                   loopVars, loopState, exc, lastLog, llm_calls, dispatched>>

CallReadFile ==
    /\ pc = "executor"
    /\ Len(calls) < MaxCalls
    /\ \E rel_path \in ExecPaths :
          LET r == read_file(fs, rel_path)
          IN  calls' = Append(calls, Call("read_file", rel_path, <<>>, r, r.ret))
    /\ UNCHANGED <<pc, cfgVars, runs, agent, stop_issued, stop_requested, i,
                   loopVars, fs, loopState, exc, lastLog, llm_calls, dispatched>>

\* a WorkspaceExecutor on the root that line 322 made, before any call
InitExecutor ==
    /\ pc = "executor"
    /\ max_iterations = 1
    /\ target_loc = MaxTarget
    /\ i = 0
    /\ loc = 0
    /\ prompt = _build_prompt(0, <<>>, <<>>)
    /\ raw = <<>>
    /\ fs = [files |-> NoFiles, dirs |-> Prefixes(root)]
    /\ llm_calls = <<>>
    /\ runs = 1
    /\ agent = 0
    /\ stop_issued = FALSE
    /\ calls = <<>>
    /\ Fresh

NextExecutor == CallMkdir \/ CallWriteFile \/ CallAppendFile \/ CallReadFile

SpecExecutor == InitExecutor /\ [][NextExecutor]_vars

\* ------------------------------------------------------------ the surface
\* The callbacks of App run one at a time on the surface thread, each as one
\* step, interleaved with the steps of the worker thread.  pc = "idle" before
\* any worker was started.

\* self.worker and self.worker.is_alive()
is_alive == runs > 0 /\ pc \notin {"idle", "finished"}

\* shutil.rmtree(path), taken as one step
rmtree(tree, path) ==
    [files |-> [q \in {x \in DOMAIN tree.files : path \notin Prefixes(x)} |->
                   tree.files[q]],
     dirs |-> {q \in tree.dirs : path \notin Prefixes(q)}]

\* lines 331-356 with a description and two integers in the form; with a
\* worker alive, or the form not valid, start_agent returns and changes nothing
start_agent ==
    /\ ~is_alive
    /\ runs < MaxRuns
    /\ runs' = runs + 1
    /\ max_iterations' \in 1..MaxAppIter
    /\ target_loc' \in {0, MaxTarget}
    /\ pc' = "start"
    /\ stop_issued' = FALSE
    /\ stop_requested' = FALSE
    /\ i' = 0
    /\ loc' = 0
    /\ prompt' = [_build_prompt(0, <<>>, <<>>) EXCEPT
                     !.max_iterations = max_iterations',
                     !.target_loc = target_loc']
    /\ raw' = <<>>
    /\ history' = <<>>
    /\ last_output' = <<>>
    /\ plan' = EmptyDict
    /\ actions' = <<>>
    /\ k' = 1
    /\ iteration_output' = <<>>
    /\ loopState' = "Running"
    /\ exc' = NoExc
    /\ lastLog' = <<>>
    /\ llm_calls' = <<>>
    /\ dispatched' = <<>>
    /\ UNCHANGED <<agent, calls, fs>>

\* lines 358-361: self.agent is None, the agent of an earlier run, or the
\* agent of the run the worker is in
stop_agent ==
    /\ runs > 0
    /\ stop_issued' = TRUE
    /\ stop_requested' = IF agent # 0 /\ agent = runs THEN TRUE ELSE stop_requested
    /\ UNCHANGED <<pc, cfgVars, runs, agent, calls, i, loopVars, fs, loopState,
                   exc, lastLog, llm_calls, dispatched>>

\* lines 363-368, the question of line 366 answered with yes
clean_project ==
    /\ root \in fs.dirs
    /\ fs' = rmtree(fs, root)
    /\ UNCHANGED <<pc, cfgVars, appVars, stop_requested, i, loopVars, loopState,
                   exc, lastLog, llm_calls, dispatched>>

\* App.__init__ (lines 248-250): no agent, no worker
InitApp ==
    /\ pc = "idle"
    /\ max_iterations = 1
    /\ target_loc = 0
    /\ i = 0
    /\ loc = 0
    /\ prompt = _build_prompt(0, <<>>, <<>>)
    /\ raw = <<>>
    /\ fs = [files |-> NoFiles, dirs |-> {<<>>, <<W>>}]
    /\ llm_calls = <<>>
    /\ runs = 0
    /\ agent = 0
    /\ stop_issued = FALSE
    /\ calls = <<>>
    /\ Fresh

NextApp ==
    \/ start_agent
    \/ stop_agent
    \/ clean_project
    \/ ThreadStart
    \/ LoopExhausted
    \/ StopBreak
    \/ IterStart
    \/ GenerateOk
    \/ GenerateFail
    \/ ExtractOk
    \/ ExtractFail
    \/ PlanAccepted
    \/ PlanUnsized
    \/ ActionsEnd
    \/ ActionStopBreak
    \/ ActionNotDict
    \/ DispatchAction
    \/ CycleReturned
    \/ CycleRaised

SpecApp == InitApp /\ [][NextApp]_vars

\* ------------------------------------------------------------ claims
\* the step is one of the action loop reaching the element actions[k]
Dispatching ==
    /\ pc = "act"
    /\ k <= Len(actions)
    /\ Len(dispatched') = Len(dispatched) + 1

\* the element reached is an object whose type is a_type
Reaches(types) ==
    /\ Dispatching
    /\ actions[k].tag = "dict"
    /\ Get(actions[k].d, "type", "") \in types

\* root/rel_path resolves to neither the root nor a descendant of it
Escapes(rel_path) == ~IsDescendant(resolve(JoinPath(root, rel_path)))

\* C1: a path that resolves outside the root makes _resolve fail, and mkdir,
\* write_file, append_file and read_file called with it leave the tree as it was
C1_EscapeRejected ==
    [][(/\ Reaches(PathActions)
        /\ "path" \in DOMAIN actions[k].d
        /\ Escapes(actions[k].d.path))
       => /\ _resolve(actions[k].d.path).exc = "ValueError"
          /\ fs' = fs
          /\ dispatched'[Len(dispatched')].res = "caught"]_vars

\* C2: with the stop flag set when iteration i + 1 is about to begin, run_cycle
\* is left as StoppedByUser without a provider call, and none is made afterwards
C2_StopBeforeIteration ==
    /\ [][(pc = "top" /\ i < max_iterations /\ stop_requested /\ pc' # "top")
          => /\ pc' = "returned"
             /\ loopState' = "StoppedByUser"
             /\ llm_calls' = llm_calls]_vars
    /\ [][loopState = "StoppedByUser"
          => /\ loopState' = "StoppedByUser"
             /\ llm_calls' = llm_calls
             /\ dispatched' = dispatched]_vars

\* the flag was found set before the second iteration, after one provider call
C2_Witness ==
    /\ loopState = "StoppedByUser"
    /\ pc = "finished"
    /\ i = 2
    /\ Len(llm_calls) = 1

\* the plan has a done action among its actions
ContainsDone(p) ==
    LET value == Get(p, "actions", List(<<>>))
    IN  /\ value.tag = "list"
        /\ \E n \in 1..Len(value.items) :
              /\ value.items[n].tag = "dict"
              /\ Get(value.items[n].d, "type", "") = "done"

RunCycleLeft == pc \in {"returned", "raised", "finished"}

\* C3: without a stop request, a provider failure or a done action, run_cycle
\* is left as Exhausted after exactly max_iterations provider calls
C3_ExhaustedAfterN ==
    (/\ RunCycleLeft
     /\ ~stop_requested
     /\ \A n \in 1..Len(llm_calls) :
           /\ llm_calls[n].result = "ok"
           /\ \A m \in 1..Len(llm_calls[n].raw) :
                 llm_calls[n].raw[m].t = "obj" => ~ContainsDone(llm_calls[n].raw[m].plan))
    => /\ loopState = "Exhausted"
       /\ Len(llm_calls) = max_iterations

\* C4: once a done action is reached nothing more is dispatched, the provider
\* is not called again, the loop is left as StoppedByPlan, and the actions
\* before it in its plan were reached in order
C4_DoneEndsLoop ==
    \A n \in 1..Len(dispatched) :
        dispatched[n].res = "done"
        => /\ n = Len(dispatched)
           /\ loopState = "StoppedByPlan"
           /\ pc \in {"returned", "finished"}
           /\ llm_calls[Len(llm_calls)].iteration = dispatched[n].iteration
           /\ dispatched[n].index = k
           /\ \A m \in 1..k :
                 /\ n - k + m >= 1
                 /\ dispatched[n - k + m].index = m
                 /\ dispatched[n - k + m].iteration = dispatched[n].iteration

\* a done action was reached third, after a mkdir and a write_file that applied
C4_Witness ==
    /\ pc = "finished"
    /\ Len(dispatched) >= 3
    /\ dispatched[Len(dispatched)].res = "done"
    /\ dispatched[Len(dispatched)].index = 3
    /\ dispatched[Len(dispatched) - 1].res = "ok"
    /\ <<W, P, D, F>> \in DOMAIN fs.files

\* C5: an action of a type that is none of the six known ones changes neither
\* the tree nor the iteration's output, and the action loop goes on with the
\* next element without leaving run_cycle
C5_UnknownIgnored ==
    [][(/\ Dispatching
        /\ actions[k].tag = "dict"
        /\ Get(actions[k].d, "type", "") \notin KnownActions)
       => /\ fs' = fs
          /\ iteration_output' = iteration_output
          /\ pc' = "act"
          /\ k' = k + 1
          /\ actions' = actions
          /\ loopState' = "Running"
          /\ exc' = NoExc]_vars

\* an unknown action was passed over, the write_file after it applied, and the
\* run went on to use up its iterations
C5_Witness ==
    /\ pc = "finished"
    /\ loopState = "Exhausted"
    /\ <<W, P, F>> \in DOMAIN fs.files
    /\ \E n \in 1..(Len(dispatched) - 1) :
          /\ dispatched[n].res = "ignored"
          /\ dispatched[n + 1].res = "ok"
          /\ dispatched[n + 1].iteration = dispatched[n].iteration

\* the element reached fails or is malformed: it is no object, it lacks the
\* path or cmd its type requires, or its path is rejected as leaving the root
Malformed(element) ==
    \/ element.tag # "dict"
    \/ /\ element.tag = "dict"
       /\ LET a_type == Get(element.d, "type", "")
          IN  \/ a_type \in PathActions /\ "path" \notin DOMAIN element.d
              \/ a_type \in PathActions /\ "path" \in DOMAIN element.d
                    /\ _resolve(element.d.path).exc # ""
              \/ a_type = "run" /\ "cmd" \notin DOMAIN element.d

\* C6: a failing or malformed action adds its error text to the iteration's
\* output and the action loop goes on with the next element of the plan
C6_FailureConfined ==
    [][(Dispatching /\ Malformed(actions[k]))
       => /\ pc' = "act"
          /\ k' = k + 1
          /\ actions' = actions
          /\ exc' = NoExc
          /\ Len(iteration_output') = Len(iteration_output) + 1
          /\ iteration_output'[Len(iteration_output')].kind = "error"]_vars

\* the decoded plan has no actions field or one that is no list
NotASequence(p) == "actions" \notin DOMAIN p \/ p.actions.tag # "list"

\* C7: a plan without a list of actions is an empty plan: its summary joins
\* the history, nothing is dispatched, last_output becomes empty and the loop
\* goes on
C7_NonSequenceIsEmptyPlan ==
    /\ [][(pc = "plan" /\ pc' # "plan" /\ NotASequence(plan))
          => /\ pc' = "act"
             /\ actions' = <<>>
             /\ history' = Append(history,
                                  [iteration |-> i,
                                   summary |-> Get(plan, "summary", "(sans resume)")])
             /\ exc' = NoExc]_vars
    /\ [][(pc = "act" /\ pc' # "act" /\ NotASequence(plan))
          => /\ pc' = "top"
             /\ last_output' = <<>>
             /\ fs' = fs
             /\ dispatched' = dispatched]_vars

\* C8: a response that cannot be decoded dispatches nothing, leaves the
\* history alone, puts the failure in last_output, and the loop goes on with
\* the next iteration
C8_DecodeFailureContinues ==
    [][(pc = "extract" /\ pc' # "extract" /\ _extract_json(raw).exc # "")
       => /\ history' = history
          /\ fs' = fs
          /\ dispatched' = dispatched
          /\ llm_calls' = llm_calls
          /\ last_output' = <<[kind |-> "exc", exc |-> _extract_json(raw).exc]>>
          /\ pc' = "top"
          /\ i' = i
          /\ loopState' = "Running"
          /\ exc' = NoExc]_vars

\* after a first response without any object the second iteration asked the
\* provider with the failure as last_output, and the history still empty
C8_Witness ==
    /\ pc = "extract"
    /\ i = 2
    /\ Len(llm_calls) = 2
    /\ history = <<>>
    /\ dispatched = <<>>
    /\ prompt.last_output = <<[kind |-> "exc", exc |-> "ValueError"]>>

\* C9: a provider call that fails is the last one, nothing of its iteration is
\* dispatched, run_cycle is left by the exception, and _run_agent_thread logs
\* it as fatal
C9_ProviderFailureStopsRun ==
    \A n \in 1..Len(llm_calls) :
        llm_calls[n].result # "ok"
        => /\ n = Len(llm_calls)
           /\ \A m \in 1..Len(dispatched) :
                 dispatched[m].iteration # llm_calls[n].iteration
           /\ pc \in {"raised", "finished"}
           /\ loopState = "Raised"
           /\ exc = [type |-> "RuntimeError", msg |-> llm_calls[n].result]
           /\ pc = "finished" => lastLog = <<"Erreur fatale", llm_calls[n].result>>

\* the provider timed out in the second iteration, after a first one that wrote
\* a file, and the thread ended on the fatal message
C9_Witness ==
    /\ pc = "finished"
    /\ Len(llm_calls) = 2
    /\ llm_calls[2].result = "timeout"
    /\ max_iterations = 3
    /\ dispatched # <<>>
    /\ lastLog = <<"Erreur fatale", "timeout">>

\* the brace balance of raw[s..e]
Depth(text, s, e) ==
    Cardinality({j \in s..e : text[j] = LB}) - Cardinality({j \in s..e : text[j] = RB})

\* where raw[s..] first returns to balance, 0 if it never does
ClosingOf(text, s) ==
    LET ends == {e \in s..Len(text) : Depth(text, s, e) = 0}
    IN  IF ends = {} THEN 0 ELSE Min(ends)

\* the first balanced substring that opens with a brace, <<>> if there is none
FirstBalanced(text) ==
    LET starts == {s \in 1..Len(text) : Opens(text[s]) /\ ClosingOf(text, s) # 0}
    IN  IF starts = {} THEN <<>>
        ELSE SubSeq(text, Min(starts), ClosingOf(text, Min(starts)))

\* C10: for a text of prose, one object and prose, where the first brace of
\* the text opens the object (so that the object is its first balanced
\* substring), _extract_json returns the object; for a text without a balanced
\* substring it raises the error of line 159
C10_FirstBalancedObject ==
    pc # "extract"
    => /\ (/\ Cardinality({j \in 1..Len(raw) : raw[j].t = "obj"}) = 1
           /\ \A j \in 1..Len(raw) : raw[j] = LB => \E n \in 1..j : raw[n].t = "obj"
           /\ Len(FirstBalanced(raw)) = 1
           /\ FirstBalanced(raw)[1].t = "obj")
          => /\ pc = "plan"
             /\ plan = FirstBalanced(raw)[1].plan
       /\ FirstBalanced(raw) = <<>>
          => /\ pc = "top"
             /\ last_output = <<[kind |-> "exc", exc |-> "ValueError"]>>

\* the element is a done action
IsDone(element) == element.tag = "dict" /\ Get(element.d, "type", "") = "done"

\* C11: a run in which every provider call returned is left for one of three
\* reasons and no other: a stop request found at the head of the loop, a done
\* action of the plan, or the iterations used up
C11_ThreeEndReasons ==
    (/\ RunCycleLeft
     /\ \A n \in 1..Len(llm_calls) : llm_calls[n].result = "ok")
    => /\ loopState \in {"StoppedByUser", "StoppedByPlan", "Exhausted"}
       /\ loopState = "StoppedByUser" => stop_requested
       /\ loopState = "StoppedByPlan"
             => /\ k <= Len(actions)
                /\ IsDone(actions[k])
                /\ dispatched[Len(dispatched)].res = "done"
       /\ loopState = "Exhausted" => i = max_iterations

\* the action loop was left by the break of line 214: an element was not
\* reached, and run_cycle is back at the head of its loop
BrokeOnStop == pc = "top" /\ k <= Len(actions)

\* C12: a stop flag found set between two actions lets no later action of the
\* plan run and no provider call follow, and the loop is then left as
\* StoppedByUser, in the last iteration as in any other
C12_StopBetweenActions ==
    /\ [][(pc = "act" /\ k <= Len(actions) /\ stop_requested /\ pc' # "act")
          => /\ pc' = "top"
             /\ fs' = fs
             /\ dispatched' = dispatched
             /\ llm_calls' = llm_calls]_vars
    /\ [][(BrokeOnStop /\ pc' # "top")
          => /\ pc' = "returned"
             /\ loopState' = "StoppedByUser"
             /\ fs' = fs
             /\ dispatched' = dispatched
             /\ llm_calls' = llm_calls]_vars

\* C13: write_file(p, c) that returned, then read_file(p), gives back exactly
\* c, whatever was at p before
C13_WriteReadRoundTrip ==
    \A n \in 1..(Len(calls) - 1) :
        (/\ calls[n].op = "write_file"
         /\ calls[n].exc = ""
         /\ ~Escapes(calls[n].rel_path)
         /\ calls[n + 1].op = "read_file"
         /\ calls[n + 1].rel_path = calls[n].rel_path)
        => /\ calls[n + 1].exc = ""
           /\ calls[n + 1].ret = calls[n].content

\* the call was made on a fresh path: nothing at it, and no regular file where
\* its parent directories are or would be
OnFreshPath(call) ==
    ~call.existed /\ ~call.under_file /\ ~Escapes(call.rel_path)

\* C14: on a fresh path, append_file(p, c1), append_file(p, c2), read_file(p)
\* gives back c1 followed by c2; the first append returns, and after it the
\* file and its parent directories exist
C14_AppendTwice ==
    /\ \A n \in 1..(Len(calls) - 2) :
          (/\ calls[n].op = "append_file"
           /\ OnFreshPath(calls[n])
           /\ calls[n + 1].op = "append_file"
           /\ calls[n + 1].rel_path = calls[n].rel_path
           /\ calls[n + 2].op = "read_file"
           /\ calls[n + 2].rel_path = calls[n].rel_path)
          => /\ calls[n].exc = ""
             /\ calls[n + 1].exc = ""
             /\ calls[n + 2].exc = ""
             /\ calls[n + 2].ret = calls[n].content \o calls[n + 1].content
    /\ (/\ calls # <<>>
        /\ calls[Len(calls)].op = "append_file"
        /\ OnFreshPath(calls[Len(calls)]))
       => LET path == _resolve(calls[Len(calls)].rel_path).path
          IN  /\ calls[Len(calls)].exc = ""
              /\ path \in DOMAIN fs.files
              /\ Prefixes(Parent(path)) \subseteq fs.dirs

\* C15: a run action with a command never raises, whatever the exit status,
\* and the text it adds to the iteration's output holds the exit status with
\* the captured stdout and stderr
C15_RunReportsExitStatus ==
    [][(Reaches({"run"}) /\ "cmd" \in DOMAIN actions[k].d)
       => /\ pc' = "act"
          /\ k' = k + 1
          /\ exc' = NoExc
          /\ Len(iteration_output') = Len(iteration_output) + 1
          /\ LET item == iteration_output'[Len(iteration_output')]
             IN  /\ item.kind = "run"
                 /\ item.cmd = actions[k].d.cmd
                 /\ "returncode" \in DOMAIN item
                 /\ \E proc \in Procs :
                       /\ item.returncode = proc.returncode
                       /\ item.stdout = proc.stdout
                       /\ item.stderr = proc.stderr]_vars

\* C16: the end conditions apply in the order stop request, done action,
\* iteration budget: a stop flag found set at the poll before a done action
\* leaves the loop as StoppedByUser, the done action not reached; a done action
\* reached in iteration max_iterations leaves it as StoppedByPlan
C16_EndPriority ==
    /\ [][(/\ pc = "act"
           /\ k <= Len(actions)
           /\ IsDone(actions[k])
           /\ stop_requested
           /\ pc' # "act")
          => /\ pc' = "top"
             /\ dispatched' = dispatched
             /\ loopState' = "Running"]_vars
    /\ [][(BrokeOnStop /\ IsDone(actions[k]) /\ pc' # "top")
          => /\ pc' = "returned"
             /\ loopState' = "StoppedByUser"]_vars
    /\ [][(Reaches({"done"}) /\ i = max_iterations)
          => /\ pc' = "returned"
             /\ loopState' = "StoppedByPlan"]_vars
    /\ [][loopState = "StoppedByPlan" => loopState' = "StoppedByPlan"]_vars

\* the n-th provider call returned a text that decoded
Decoded(n) ==
    llm_calls[n].result = "ok" /\ _extract_json(llm_calls[n].raw).exc = ""

\* the iteration of the n-th provider call is past the handling of its plan's
\* summary and actions field
Entered(n) == n < Len(llm_calls) \/ pc \notin {"extract", "plan"}

\* one entry per decoded iteration among the first n provider calls, in order
RECURSIVE Entries(_)
Entries(n) ==
    IF n = 0 THEN <<>>
    ELSE Entries(n - 1) \o
         (IF Decoded(n) /\ Entered(n)
          THEN <<[iteration |-> llm_calls[n].iteration,
                  summary |-> Get(_extract_json(llm_calls[n].raw).plan,
                                  "summary", "(sans resume)")]>>
          ELSE <<>>)

\* C17: the history holds exactly one entry per iteration whose response
\* decoded, in iteration order, with the iteration's index and its summary or
\* the placeholder; the entry is there from before the first action of the
\* iteration on, also for an empty plan, a done action or a stop request
C17_HistoryPerDecodedIteration == history = Entries(Len(llm_calls))

\* the latest line count is at or above the target
TargetReached == loc >= target_loc

\* C18: with the line count at or above the target the iteration still calls
\* the provider, a provider answer is still decoded with the loop Running, a
\* decoded plan still has its actions taken up, and each action not preceded
\* by a stop request is still dispatched
C18_TargetIsAdvisory ==
    /\ [][(pc = "llm" /\ count_loc(fs, language) >= target_loc /\ pc' # "llm")
          => /\ Len(llm_calls') = Len(llm_calls) + 1
             /\ llm_calls'[Len(llm_calls')].iteration = i
             /\ loc' = count_loc(fs, language)
             /\ prompt'.target_loc = target_loc
             /\ llm_calls'[Len(llm_calls')].result = "ok"
                   => /\ pc' = "extract"
                      /\ loopState' = "Running"
                      /\ raw' = llm_calls'[Len(llm_calls')].raw]_vars
    /\ [][(/\ TargetReached
           /\ pc = "plan"
           /\ pc' # "plan"
           /\ Sized(Get(plan, "actions", List(<<>>))))
          => /\ pc' = "act"
             /\ actions' = Get(plan, "actions", List(<<>>)).items
             /\ loopState' = "Running"]_vars
    /\ [][(/\ TargetReached
           /\ pc = "act"
           /\ k <= Len(actions)
           /\ ~stop_requested
           /\ stop_requested' = stop_requested)
          => /\ Len(dispatched') = Len(dispatched) + 1
             /\ dispatched'[Len(dispatched')].iteration = i
             /\ dispatched'[Len(dispatched')].index = k
             /\ loopState' = "Running" \/ IsDone(actions[k]) \/ actions[k].tag # "dict"]_vars

\* with the target reached in a later iteration (a file of the project holds
\* the lines) a write_file of that iteration's plan applied, the loop Running
C18_Witness ==
    /\ target_loc = MaxTarget
    /\ TargetReached
    /\ i >= 2
    /\ pc = "act"
    /\ loopState = "Running"
    /\ dispatched # <<>>
    /\ dispatched[Len(dispatched)].iteration = i
    /\ dispatched[Len(dispatched)].res = "ok"

\* the worker is inside run_cycle
LoopRunning == runs > 0 /\ pc \in {"top", "llm", "extract", "plan", "act"}

\* C19: a worker is started only when none is alive, and while a loop is
\* running the tree changes only by a path action dispatched to the executor,
\* never by the surface
C19_OneLoopExecutorOnly ==
    /\ [][runs' # runs => (~is_alive /\ runs' = runs + 1)]_vars
    /\ [][(LoopRunning /\ fs' # fs) => Reaches(PathActions)]_vars

\* a polling point of run_cycle: the head of an iteration, or the head of the
\* action loop with an element left
AtIterationPoll == pc = "top" /\ i < max_iterations

AtActionPoll == pc = "act" /\ k <= Len(actions)

\* C20: after stop_agent was called during a run, the flag of the run's agent
\* is set, and the worker goes past no polling point: from the head of an
\* iteration it leaves the loop without a provider call, from the head of the
\* action loop it leaves the plan without dispatching
C20_StopAgentReachesRun ==
    /\ [][(stop_issued /\ AtIterationPoll /\ pc' # pc)
          => /\ stop_requested
             /\ pc' = "returned"
             /\ llm_calls' = llm_calls]_vars
    /\ [][(stop_issued /\ AtActionPoll /\ (pc' # pc \/ k' # k))
          => /\ stop_requested
             /\ pc' = "top"
             /\ dispatched' = dispatched
             /\ fs' = fs]_vars

====
